---- MODULE Spec2Model ----
(***************************************************************************)
(* napari-copick: the asynchronous task orchestration of the plugin        *)
(* (widget.py, tree_widget.py, gallery_widget.py), the worker functions    *)
(* they start (async_loaders.py) and the save dialog (dialogs.py).         *)
(*                                                                         *)
(* These specifications share this module:                                 *)
(*   SpecWorker  one worker generator of async_loaders.py run by the       *)
(*               thread_worker loop: its inputs are drawn in WInit, its    *)
(*               signals are queued to the interface thread and delivered  *)
(*               in order.                                                 *)
(*   Spec        the plugin on the interface thread: submits, the          *)
(*               yielded / returned / errored / finished callbacks, the    *)
(*               registries and the operation tracker.                     *)
(*   SpecLoad    one tomogram load end to end: the submit of the info      *)
(*               widget, the worker generator, and the plugin callbacks    *)
(*               run on the delivery of each signal.                       *)
(*   SpecGroup   the grouping of picks, meshes and segmentations by user   *)
(*               and session.                                              *)
(*   SpecSubmit  the submit of a tomogram load taken statement by          *)
(*               statement: the start of the worker, then the write of the *)
(*               registry, with the callbacks of the worker in between.    *)
(*   SpecGallery the loads the gallery widget starts by itself, next to    *)
(*               the loads of the info widget; SpecGalleryFair adds that   *)
(*               every started worker reaches its outcome and every queued *)
(*               callback runs.                                            *)
(*   SpecDialog  the checkboxes of the save dialog (dialogs.py) from its   *)
(*               construction to accept or reject.                         *)
(*                                                                         *)
(* Handlers run to completion on the interface thread, one per step.       *)
(* Left out of Spec: the loads started from the gallery widget (they are   *)
(* in SpecGallery); the layer                                              *)
(* a result handler adds to the viewer (its failure only changes the       *)
(* status text); the expand events that restore_expansion_for_item and the *)
(* delayed _restore_all_expansion_states raise, which are taken as later   *)
(* handle_item_expand steps.  A tree item deleted by QTreeWidget.clear()   *)
(* while a map still refers to it is a dangling reference: a call on it    *)
(* either raises or has no effect.                                         *)
(***************************************************************************)
EXTENDS Integers, Sequences, FiniteSets, TLC

(***************************************************************************)
(* Bounds of the worker specification.                                     *)
(***************************************************************************)
\* largest number of members of a zarr group
MaxMembers == 3
\* largest requested resolution level (the smallest is -1)
MaxReq == 5

(***************************************************************************)
(* Bounds of the plugin specification.                                     *)
(***************************************************************************)
\* runs of the project; each has one voxel spacing, tomogram and segmentation
NumRuns == 2
\* workers alive at the same time, over all entities
MaxInFlight == 2
\* workers alive at the same time for one registry key
MaxPerKey == 2
\* save dialogs accepted while their workers are alive
MaxSaves == 2
\* workers created over a whole behaviour
MaxTasks == 4
\* workers the gallery has started that have no outcome yet
MaxGalleryLoads == 2

(***************************************************************************)
(* Bounds of the save dialog specification.                                *)
(***************************************************************************)
\* save dialogs opened over a whole behaviour
MaxDialogs == 3

(***************************************************************************)
(* Bounds of the grouping specification.                                   *)
(***************************************************************************)
\* picks of a run, or segmentations of a voxel spacing
MaxItems == 3

VARIABLES
  \* ---- worker specification (async_loaders.py) ----
  w_kind,      \* which worker function runs: "tomogram" or "segmentation"
  w_keys,      \* list(zarr_group.keys()): member names, in the store's order
  w_req,       \* resolution_level argument
  w_base,      \* meta.voxel_size of the entity
  w_fail,      \* the storage call that raises, if any
  w_pc,        \* where the generator is suspended
  w_level,     \* local resolution_level of the generator
  w_data_key,  \* local selected_level / data_key of the generator
  w_voxel,     \* local voxel_size[0] of the generator, as <<numerator, denominator>>
  w_phase,     \* position of the thread_worker run loop
  w_abort,     \* abort_requested, set by worker.quit()
  w_queue,     \* signals emitted by the worker and not yet delivered
  w_seen,      \* signals delivered to the connected callbacks, in order
  \* ---- plugin specification (widget.py, tree_widget.py) ----
  closed,                  \* closeEvent has run
  children,                \* entities whose tree item has childCount() > 0
  indicator,               \* entities whose tree item shows the loading widget
  loading_workers,         \* CopickPlugin.loading_workers: key -> worker (0: no entry)
  loading_items,           \* CopickPlugin.loading_items: entity -> item reference
  expansion_workers,       \* CopickPlugin.expansion_workers
  expansion_items,         \* CopickPlugin.expansion_items
  tree_expansion_workers,  \* CopickTreeWidget.expansion_workers
  tree_expansion_items,    \* CopickTreeWidget.expansion_items
  active_operations,       \* CopickPlugin.active_operations
  loading_visible,         \* loading_widget.isVisible()
  loading_label,           \* loading_label.text()
  info_label,              \* info_label.text()
  submitted,               \* number of workers created so far
  workers,                 \* the workers started and not finished, per key
  overlapped,              \* history: a worker was started for a key that had one alive
  rejected,                \* history: the key of the submit the last step skipped as a duplicate
  \* ---- grouping specification (async_loaders.py, tree_widget.py) ----
  g_kind,      \* "picks" (expand_run_worker) or "segmentations" (the tree widget)
  g_items,     \* the picks or segmentations, in the order the project gives them
  g_pos,       \* how many of them the for loop has taken
  g_dict,      \* user_dict / grouped: an insertion-ordered dict of dicts of lists
  \* ---- the statements of a submit (widget.py) ----
  starting,    \* <<entity, worker>> between worker.start() and the registry write
  \* ---- the gallery (gallery_widget.py) ----
  current_operation,  \* _current_operation: the tomogram of the tuple, or NoKeyRef
  gallery_workers,    \* tomogram -> workers the gallery started that have no outcome yet
  \* ---- the save dialog (dialogs.py) ----
  dialog,       \* the checkboxes of the SaveLayerDialog: checked and enabled states
  dialog_open,  \* dialog.exec_() is running
  save_params,  \* the flags of the last get_values()
  dialogs       \* number of dialogs constructed so far

wvars == <<w_kind, w_keys, w_req, w_base, w_fail, w_pc, w_level, w_data_key,
           w_voxel, w_phase, w_abort, w_queue, w_seen>>

registries == <<loading_workers, loading_items, expansion_workers, expansion_items,
                tree_expansion_workers, tree_expansion_items>>

tracker == <<active_operations, loading_visible, loading_label>>

tree == <<children, indicator>>

\* everything of the plugin but the record of the last step
pstate == <<closed, children, indicator, loading_workers, loading_items,
            expansion_workers, expansion_items, tree_expansion_workers,
            tree_expansion_items, active_operations, loading_visible,
            loading_label, info_label, submitted, workers, overlapped>>

pvars == <<pstate, rejected>>

gvars == <<g_kind, g_items, g_pos, g_dict>>

svars == <<starting>>
\* the save dialog
dvars == <<dialog, dialog_open, save_params, dialogs>>

galvars == <<current_operation, gallery_workers>>

vars == <<wvars, pvars, gvars, svars, galvars, dvars>>

\* what a step of the plugin, of a worker, of the grouping loop leaves alone
beside_plugin == <<wvars, gvars, svars, galvars, dvars>>
beside_worker == <<pvars, gvars, svars, galvars, dvars>>
beside_group == <<wvars, pvars, svars, galvars, dvars>>

(***************************************************************************)
(* Member names are sequences of characters, so that isdigit and int are   *)
(* computed and not assumed.                                               *)
(***************************************************************************)
DigitChars == <<"0", "1", "2", "3", "4", "5", "6", "7", "8", "9">>

IsDigitChar(c) == \E i \in 1..Len(DigitChars) : DigitChars[i] = c

DigitVal(c) == (CHOOSE i \in 1..Len(DigitChars) : DigitChars[i] = c) - 1

\* str.isdigit(): non-empty and every character a digit
isdigit(key) == Len(key) > 0 /\ \A i \in 1..Len(key) : IsDigitChar(key[i])

\* int(key) of a digit string
RECURSIVE int(_)
int(key) ==
  IF Len(key) = 0 THEN 0
  ELSE int(SubSeq(key, 1, Len(key) - 1)) * 10 + DigitVal(key[Len(key)])

NameData == <<"d", "a", "t", "a">>
NameZero == <<"0">>

\* the member names a group is built from
MemberNames ==
  { <<"0">>, <<"1">>, <<"2">>, <<"1", "0">>, NameData, <<"m", "a", "s", "k">>,
    <<"s", "e", "g">> }

RECURSIVE SeqsNoDup(_, _)
SeqsNoDup(S, n) ==
  IF n = 0 THEN { <<>> }
  ELSE LET shorter == SeqsNoDup(S, n - 1) IN
       shorter \cup { Append(s, x) : s \in { t \in shorter : Len(t) = n - 1 },
                                     x \in S }

NoDup(s) == \A i, j \in 1..Len(s) : i # j => s[i] # s[j]

KeyLists == { s \in SeqsNoDup(MemberNames, MaxMembers) : NoDup(s) }

ReqLevels == (0 - 1)..MaxReq

BaseVoxelSizes == { 7, 10 }

Contains(seq, x) == \E i \in 1..Len(seq) : seq[i] = x

\* [key for key in zarr_group.keys() if key.isdigit()]
RECURSIVE DigitKeys(_)
DigitKeys(keys) ==
  IF Len(keys) = 0 THEN <<>>
  ELSE IF isdigit(Head(keys)) THEN <<Head(keys)>> \o DigitKeys(Tail(keys))
       ELSE DigitKeys(Tail(keys))

\* insert x after the elements whose int is <= int(x): a stable insertion
RECURSIVE InsertByInt(_, _)
InsertByInt(sorted, x) ==
  IF Len(sorted) = 0 THEN <<x>>
  ELSE IF int(Head(sorted)) <= int(x)
       THEN <<Head(sorted)>> \o InsertByInt(Tail(sorted), x)
       ELSE <<x>> \o sorted

\* the sort dropped: the levels stay in the order of the store
SortByInt_StoreOrder(keys) == keys

\* list.sort(key=int)
RECURSIVE SortByInt(_)
SortByInt(keys) ==
  IF Len(keys) = 0 THEN <<>>
  ELSE InsertByInt(SortByInt(SubSeq(keys, 1, Len(keys) - 1)), keys[Len(keys)])

\* scale_levels of both workers
ScaleLevels(keys) == SortByInt(DigitKeys(keys))

\* Python list indexing: lst[i] is defined for -len <= i < len
IndexOk(lst, i) == (0 - Len(lst)) <= i /\ i < Len(lst)

PyIndex(lst, i) == IF i >= 0 THEN lst[i + 1] ELSE lst[Len(lst) + i + 1]

\* an off-by-one clamp: a request equal to the number of levels is let through
ClampLevel_OffByOne(level, n) == IF level > n THEN n - 1 ELSE level

\* the "Validate resolution level" step of both workers
ClampLevel(level, n) == IF level >= n THEN n - 1 ELSE level

RECURSIVE Pow2(_)
Pow2(n) == IF n <= 0 THEN 1 ELSE 2 * Pow2(n - 1)

\* the voxel size is not scaled by the level
ScaledVoxel_Unscaled(base, level) == <<base, 1>>

\* base_voxel_size * 2 ** level as <<numerator, denominator>>
ScaledVoxel(base, level) ==
  IF level >= 0 THEN <<base * Pow2(level), 1>> ELSE <<base, Pow2(0 - level)>>

NoKey == <<>>
NoVoxel == <<0, 0>>

\* the empty-list test dropped
NoLevels_Dropped(scale_levels) == FALSE

\* "if not scale_levels" of load_tomogram_worker
NoLevels(scale_levels) == Len(scale_levels) = 0

\* the multiscale branch tried first: "data" is taken only when "0" is absent
HasDataMember_AfterMultiscale(keys) ==
  Contains(keys, NameData) /\ ~Contains(keys, NameZero)

\* '"data" in zarr_group', the first branch of load_segmentation_worker
HasDataMember(keys) == Contains(keys, NameData)

(***************************************************************************)
(* The worker generators.  Each operator advances the generator from the   *)
(* yield where it is suspended to its next yield, its return or its raise, *)
(* and gives the locals it leaves behind.                                  *)
(***************************************************************************)
\* one step of a generator: what it does and the locals afterwards
GenStep(ev, text, pc, level, key, voxel) ==
  [ev |-> ev, text |-> text, pc |-> pc, level |-> level, key |-> key,
   voxel |-> voxel]

\* the exception leaves the generator closed
Raise(err, level, key, voxel) == GenStep("raise", err, "closed", level, key, voxel)

load_tomogram_worker(pc, keys, req, base, fail, level, key, voxel) ==
  CASE pc = "start" ->
         \* tomogram.zarr(), then the first yield
         IF fail = "zarr" THEN Raise("StorageIOError", level, key, voxel)
         ELSE GenStep("yield", "Opening zarr group", "opening", level, key, voxel)
    [] pc = "opening" ->
         \* zarr.open, scale_levels, the clamp and the selection
         IF fail = "open" THEN Raise("StorageIOError", level, key, voxel)
         ELSE LET scale_levels == ScaleLevels(keys)
                  resolution_level == ClampLevel(level, Len(scale_levels))
              IN  IF NoLevels(scale_levels)
                  THEN Raise("NoScaleLevels", level, key, voxel)
                  ELSE IF ~IndexOk(scale_levels, resolution_level)
                  THEN Raise("IndexError", resolution_level, key, voxel)
                  ELSE GenStep("yield", "Loading resolution level", "level",
                               resolution_level,
                               PyIndex(scale_levels, resolution_level), voxel)
    [] pc = "level" ->
         \* array = zarr_group[selected_level], voxel_size
         GenStep("yield", "Loading image data into memory", "memory", level, key,
                 ScaledVoxel(base, level))
    [] pc = "memory" ->
         \* np.array(array), then the return
         IF fail = "read" THEN Raise("StorageIOError", level, key, voxel)
         ELSE GenStep("return", "result", "closed", level, key, voxel)

\* the fallback takes the last member
FirstKey_Last(keys) == keys[Len(keys)]

\* list(zarr_group.keys())[0]
FirstKey(keys) == keys[1]

load_segmentation_worker(pc, keys, req, base, fail, level, key, voxel) ==
  CASE pc = "start" ->
         IF fail = "zarr" THEN Raise("StorageIOError", level, key, voxel)
         ELSE GenStep("yield", "Opening zarr group", "opening", level, key, voxel)
    [] pc = "opening" ->
         IF fail = "open" THEN Raise("StorageIOError", level, key, voxel)
         ELSE IF HasDataMember(keys)
         THEN GenStep("yield", "Loading segmentation data from level", "level",
                      level, NameData, voxel)
         ELSE IF Contains(keys, NameZero)
         THEN LET scale_levels == ScaleLevels(keys)
                  resolution_level == ClampLevel(level, Len(scale_levels))
              IN  IF ~IndexOk(scale_levels, resolution_level)
                  THEN Raise("IndexError", resolution_level, key, voxel)
                  ELSE GenStep("yield", "Loading segmentation data from level",
                               "level", resolution_level,
                               PyIndex(scale_levels, resolution_level), voxel)
         ELSE IF Len(keys) = 0
         THEN Raise("IndexError", level, key, voxel)
         ELSE GenStep("yield", "Loading segmentation data from level", "level",
                      level, FirstKey(keys), voxel)
    [] pc = "level" ->
         \* array = zarr_group[data_key], voxel_size, the reset of the level
         IF isdigit(key)
         THEN GenStep("yield", "Loading segmentation data into memory", "memory",
                      level, key, ScaledVoxel(base, level))
         ELSE GenStep("yield", "Loading segmentation data into memory", "memory",
                      0, key, <<base, 1>>)
    [] pc = "memory" ->
         IF fail = "read" THEN Raise("StorageIOError", level, key, voxel)
         ELSE GenStep("return", "result", "closed", level, key, voxel)

\* the generator the decorated function of this kind creates
WorkerGen(kind, pc, keys, req, base, fail, level, key, voxel) ==
  IF kind = "tomogram"
  THEN load_tomogram_worker(pc, keys, req, base, fail, level, key, voxel)
  ELSE load_segmentation_worker(pc, keys, req, base, fail, level, key, voxel)

(***************************************************************************)
(* The signals of a worker.  A yielded signal carries the message and the  *)
(* level the message names, a returned signal the result dictionary, an    *)
(* errored signal the exception.                                           *)
(***************************************************************************)
Signal(sig, text, level, key, voxel) ==
  [sig |-> sig, text |-> text, level |-> level, key |-> key, voxel |-> voxel]

SigYielded(step) == Signal("yielded", step.text, step.level, NoKey, NoVoxel)
SigReturned(level, key, voxel) == Signal("returned", "result", level, key, voxel)
SigErrored(err) == Signal("errored", err, 0, NoKey, NoVoxel)
SigFinished == Signal("finished", "", 0, NoKey, NoVoxel)

(***************************************************************************)
(* Grouping by user and session.  A Python dict keeps its keys in          *)
(* insertion order: it is a sequence of [key, val] entries with distinct   *)
(* keys.  An item is its position in the input list; its user_id and       *)
(* session_id are read from the list.                                      *)
(***************************************************************************)
UserIds == {"A", "B"}
SessionIds == {1, 2}
ObjectNames == {"X", "Y"}

ItemMetas == [user_id : UserIds, session_id : SessionIds, name : ObjectNames]

ItemLists == UNION { [1..n -> ItemMetas] : n \in 0..MaxItems }

\* key in d
DictHas(d, key) == \E i \in 1..Len(d) : d[i].key = key

\* d[key]
DictGet(d, key) == d[CHOOSE i \in 1..Len(d) : d[i].key = key].val

\* d[key] = val: a present key keeps its place, a new key goes last
DictSet(d, key, val) ==
  IF DictHas(d, key)
  THEN [i \in 1..Len(d) |-> IF d[i].key = key THEN [key |-> key, val |-> val] ELSE d[i]]
  ELSE Append(d, [key |-> key, val |-> val])

\* the item is put in front of its group
GroupAdd_Prepends(grouped, user_id, session_id, item) ==
  LET d1 == IF DictHas(grouped, user_id) THEN grouped ELSE DictSet(grouped, user_id, <<>>)
      u1 == IF DictHas(DictGet(d1, user_id), session_id)
            THEN DictGet(d1, user_id)
            ELSE DictSet(DictGet(d1, user_id), session_id, <<>>)
  IN DictSet(d1, user_id, DictSet(u1, session_id, <<item>> \o DictGet(u1, session_id)))

\* one pass of the loop body:
\*   if user_id not in grouped: grouped[user_id] = {}
\*   if session_id not in grouped[user_id]: grouped[user_id][session_id] = []
\*   grouped[user_id][session_id].append(item)
GroupAdd(grouped, user_id, session_id, item) ==
  LET d1 == IF DictHas(grouped, user_id) THEN grouped ELSE DictSet(grouped, user_id, <<>>)
      u1 == IF DictHas(DictGet(d1, user_id), session_id)
            THEN DictGet(d1, user_id)
            ELSE DictSet(DictGet(d1, user_id), session_id, <<>>)
  IN DictSet(d1, user_id, DictSet(u1, session_id, Append(DictGet(u1, session_id), item)))

\* no grouping runs
GIdle ==
  /\ g_kind = "picks"
  /\ g_items = <<>>
  /\ g_pos = 0
  /\ g_dict = <<>>

(***************************************************************************)
(* The project the plugin has loaded: NumRuns runs, each with one voxel    *)
(* spacing of voxel size 10, which holds one tomogram and one              *)
(* segmentation.  An entity is <<kind, index>>; a save is keyed by its     *)
(* operation id, <<"save", n>>.                                            *)
(***************************************************************************)
Runs == { <<"run", i>> : i \in 1..NumRuns }
VoxelSpacings == { <<"vs", i>> : i \in 1..NumRuns }
Tomograms == { <<"tomo", i>> : i \in 1..NumRuns }
Segmentations == { <<"seg", i>> : i \in 1..NumRuns }
Saves == { <<"save", n>> : n \in 1..MaxSaves }

ExpandEntities == Runs \cup VoxelSpacings
LoadEntities == Tomograms \cup Segmentations
Entities == ExpandEntities \cup LoadEntities
LoadKeys == LoadEntities \cup Saves
Keys == Entities \cup Saves

KindOf(e) == e[1]

\* the voxel spacing item is a child of its run item, the tomogram and
\* segmentation items are below their voxel spacing item
ParentOf(e) ==
  IF KindOf(e) = "vs" THEN <<"run", e[2]>> ELSE <<"vs", e[2]>>

\* run.name, voxel_spacing.voxel_size, tomogram.tomo_type, segmentation.name
NameOf(e) == IF KindOf(e) = "run" THEN e[2] ELSE IF KindOf(e) = "vs" THEN 10 ELSE 0

\* id(tomogram), id(segmentation), id(save_params): one number per live object
IdOf(e) == e[2]

NoKeyRef == <<"", 0>>

\* no submit is between its worker.start() and its registry write
NoStart == <<NoKeyRef, 0>>

\* the text of a label: what it says and about which entity
Text(what, e) == <<what, e>>

\* the operation_id f-strings of the submit functions and of their handlers
OperationId(e) ==
  CASE KindOf(e) = "run"  -> <<"expand_run", NameOf(e), 0>>
    [] KindOf(e) = "vs"   -> <<"expand_voxel_spacing", NameOf(e), 0>>
    [] KindOf(e) = "tomo" -> <<"load_tomogram", NameOf(e), IdOf(e)>>
    [] KindOf(e) = "seg"  -> <<"load_segmentation", NameOf(e), IdOf(e)>>
    [] KindOf(e) = "save" -> <<"save_segmentation", 0, IdOf(e)>>

(***************************************************************************)
(* Workers as the interface thread sees them.  The signals of one worker   *)
(* arrive in the order yielded*, returned or errored, finished (shown      *)
(* under SpecWorker); a worker asked to quit may finish with no outcome.   *)
(***************************************************************************)
Free == [st |-> "free", quit |-> FALSE]
Started == [st |-> "running", quit |-> FALSE]

Slots == 1..MaxPerKey

Alive(k) == { n \in Slots : workers[k][n].st # "free" }

InFlight == { <<k, n>> \in Keys \X Slots : workers[k][n].st # "free" }

\* the slot of a new worker for key k
NewSlot(k) == CHOOSE n \in Slots : workers[k][n].st = "free"
                                   /\ \A m \in Slots : m < n => workers[k][m].st # "free"

\* a worker can be created for k within the bounds of the model
CanStart(k) ==
  /\ \E n \in Slots : workers[k][n].st = "free"
  /\ Cardinality(InFlight) < MaxInFlight
  /\ submitted < MaxTasks

\* worker = ..._worker(...); worker.start()
StartWorker(k) ==
  /\ workers' = [workers EXCEPT ![k][NewSlot(k)] = Started]
  /\ submitted' = submitted + 1
  /\ rejected' = NoKeyRef
  /\ overlapped' = (overlapped \/ Alive(k) # {})

SetState(k, n, st) == workers' = [workers EXCEPT ![k][n].st = st]

(***************************************************************************)
(* The tree.                                                               *)
(***************************************************************************)
\* the item of e is in the tree: run items always, the others once the item
\* above them has been given its children
ItemExists(e) == KindOf(e) = "run" \/ ParentOf(e) \in children

\* what remove_loading_indicator does with the item a map entry refers to:
\* a live item loses its widget; an entry that is absent or None has no item;
\* an item deleted by QTreeWidget.clear() is a dangling reference, and the
\* call either raises or has no effect
ItemCallOutcomes(ref) == IF ref = "stale" THEN {"raises", "ignored"} ELSE {"ok"}

\* CopickTreeWidget.add_loading_indicator / CopickPlugin.add_loading_indicator
add_loading_indicator(e) == indicator' = indicator \cup {e}

\* remove_loading_indicator on the item behind the reference ref of e
remove_loading_indicator(e, ref) ==
  indicator' = IF ref = "live" THEN indicator \ {e} ELSE indicator

(***************************************************************************)
(* The operation tracker.                                                  *)
(***************************************************************************)
\* the widget is hidden whenever an operation ends
remove_operation_HidesAlways(operation_id) ==
  /\ active_operations' = active_operations \ {operation_id}
  /\ loading_visible' = FALSE
  /\ UNCHANGED loading_label

\* an add of an id that is present leaves the label alone
add_operation_KeepsLabel(operation_id, description) ==
  /\ active_operations' = active_operations \cup {operation_id}
  /\ loading_label' = IF operation_id \in active_operations THEN loading_label
                      ELSE description
  /\ loading_visible' = TRUE

\* every add toggles the widget
add_operation_Toggles(operation_id, description) ==
  /\ active_operations' = active_operations \cup {operation_id}
  /\ loading_label' = description
  /\ loading_visible' = ~loading_visible

\* CopickPlugin._add_operation
add_operation(operation_id, description) ==
  /\ active_operations' = active_operations \cup {operation_id}
  /\ loading_label' = description
  /\ loading_visible' = TRUE

\* CopickPlugin._remove_operation
remove_operation(operation_id) ==
  /\ active_operations' = active_operations \ {operation_id}
  /\ loading_visible' = IF active_operations \ {operation_id} = {} THEN FALSE
                        ELSE loading_visible
  /\ UNCHANGED loading_label

(***************************************************************************)
(* The registries.                                                         *)
(***************************************************************************)
\* the release of a key empties both maps
cleanup_worker_ClearsAll(e) ==
  /\ loading_workers' = [k \in LoadKeys |-> 0]
  /\ loading_items' = [k \in LoadEntities |-> "absent"]

\* CopickPlugin.cleanup_worker
cleanup_worker(e) ==
  /\ loading_workers' = [loading_workers EXCEPT ![e] = 0]
  /\ loading_items' = [loading_items EXCEPT ![e] = "absent"]

\* CopickPlugin.cleanup_save_worker
cleanup_save_worker(operation_key) ==
  /\ loading_workers' = [loading_workers EXCEPT ![operation_key] = 0]
  /\ UNCHANGED loading_items

\* the release forgets the worker map
cleanup_expansion_worker_KeepsWorker(e) ==
  /\ tree_expansion_items' = [tree_expansion_items EXCEPT ![e] = "absent"]
  /\ UNCHANGED tree_expansion_workers

\* CopickTreeWidget.cleanup_expansion_worker
cleanup_expansion_worker(e) ==
  /\ tree_expansion_workers' = [tree_expansion_workers EXCEPT ![e] = 0]
  /\ tree_expansion_items' = [tree_expansion_items EXCEPT ![e] = "absent"]

(***************************************************************************)
(* The save dialog for a segmentation layer (dialogs.py).  A QCheckBox     *)
(* emits toggled(checked) when its checked state changes, by a click or by *)
(* setChecked, and the connected slot runs before the call returns;        *)
(* setChecked with the state the box already has emits nothing.  A box     *)
(* that is not enabled takes no click.                                     *)
(***************************************************************************)
\* SaveLayerDialog.__init__ with layer_type "segmentation": the state of the
\* checkboxes when exec_() starts
SaveLayerDialog(preset_overwrite) ==
  [ multilabel_checkbox |-> FALSE,
    split_instances_checkbox |-> FALSE,
    convert_to_binary_checkbox |-> TRUE,
    split_enabled |-> TRUE,
    convert_enabled |-> TRUE,
    overwrite_checkbox |-> preset_overwrite ]

\* no get_values() has run
NoParams ==
  [ taken |-> FALSE, is_multilabel |-> FALSE, split_instances |-> FALSE,
    convert_to_binary |-> FALSE, exist_ok |-> FALSE ]

\* SaveLayerDialog.get_values: the flags of the dictionary
get_values(d) ==
  [ taken |-> TRUE,
    is_multilabel |-> d.multilabel_checkbox,
    split_instances |-> d.split_instances_checkbox,
    convert_to_binary |-> d.convert_to_binary_checkbox,
    exist_ok |-> d.overwrite_checkbox ]

RECURSIVE split_setChecked(_, _)

\* the slot leaves the split-instances box as it is
on_convert_to_binary_toggled_KeepsSplit(d, checked) == d

\* SaveLayerDialog._on_convert_to_binary_toggled
on_convert_to_binary_toggled(d, checked) ==
  IF checked THEN split_setChecked(d, FALSE) ELSE d

\* convert_to_binary_checkbox.setChecked(checked)
convert_setChecked(d, checked) ==
  IF d.convert_to_binary_checkbox = checked THEN d
  ELSE on_convert_to_binary_toggled(
         [d EXCEPT !.convert_to_binary_checkbox = checked], checked)

\* SaveLayerDialog._on_split_instances_toggled
on_split_instances_toggled(d, checked) ==
  IF checked THEN convert_setChecked(d, FALSE) ELSE d

\* split_instances_checkbox.setChecked(checked)
split_setChecked(d, checked) ==
  IF d.split_instances_checkbox = checked THEN d
  ELSE on_split_instances_toggled(
         [d EXCEPT !.split_instances_checkbox = checked], checked)

\* SaveLayerDialog._on_multilabel_toggled, for layer_type "segmentation"
on_multilabel_toggled(d, checked) ==
  IF checked
  THEN LET d1 == split_setChecked(d, FALSE)
           d2 == [d1 EXCEPT !.split_enabled = FALSE]
           d3 == convert_setChecked(d2, FALSE)
       IN  [d3 EXCEPT !.convert_enabled = FALSE]
  ELSE LET d1 == [d EXCEPT !.split_enabled = TRUE, !.convert_enabled = TRUE]
       IN  convert_setChecked(d1, TRUE)

\* multilabel_checkbox changes its state
multilabel_setChecked(d, checked) ==
  IF d.multilabel_checkbox = checked THEN d
  ELSE on_multilabel_toggled([d EXCEPT !.multilabel_checkbox = checked], checked)

(***************************************************************************)
(* Init: the plugin constructed with a config, the tree holding the runs.  *)
(***************************************************************************)
PInit ==
  /\ closed = FALSE
  /\ children = {}
  /\ indicator = {}
  /\ loading_workers = [k \in LoadKeys |-> 0]
  /\ loading_items = [e \in LoadEntities |-> "absent"]
  /\ expansion_workers = [e \in ExpandEntities |-> 0]
  /\ expansion_items = [e \in ExpandEntities |-> "absent"]
  /\ tree_expansion_workers = [e \in ExpandEntities |-> 0]
  /\ tree_expansion_items = [e \in ExpandEntities |-> "absent"]
  /\ active_operations = {}
  /\ loading_visible = FALSE
  /\ loading_label = Text("Loading...", NoKeyRef)
  /\ info_label = Text("Loaded config", NoKeyRef)
  /\ submitted = 0
  /\ workers = [k \in Keys |-> [n \in Slots |-> Free]]
  /\ overlapped = FALSE
  /\ rejected = NoKeyRef
  /\ starting = NoStart
  /\ current_operation = NoKeyRef
  /\ gallery_workers = [t \in Tomograms |-> 0]
  /\ dialog = SaveLayerDialog(FALSE)
  /\ dialog_open = FALSE
  /\ save_params = NoParams
  /\ dialogs = 0

\* no worker of the worker specification exists
WIdle ==
  /\ w_kind = "tomogram"
  /\ w_keys = <<>>
  /\ w_req = 0
  /\ w_base = 10
  /\ w_fail = "none"
  /\ w_pc = "closed"
  /\ w_level = 0
  /\ w_data_key = NoKey
  /\ w_voxel = NoVoxel
  /\ w_phase = "exit"
  /\ w_abort = FALSE
  /\ w_queue = <<>>
  /\ w_seen = <<>>

Init == PInit /\ WIdle /\ GIdle

(***************************************************************************)
(* Submits.                                                                *)
(***************************************************************************)
\* the early return of a submit; duplicate: a worker is registered for the key
Skip(duplicate, e) ==
  /\ rejected' = IF duplicate THEN e ELSE NoKeyRef
  /\ UNCHANGED pstate

\* CopickTreeWidget.expand_run_async
expand_run_async(run) ==
  IF run \in children \/ tree_expansion_workers[run] # 0
  THEN Skip(tree_expansion_workers[run] # 0, run)
  ELSE /\ CanStart(run)
       /\ add_loading_indicator(run)
       /\ tree_expansion_items' = [tree_expansion_items EXCEPT ![run] = "live"]
       /\ add_operation(OperationId(run), Text("Expanding run", run))
       /\ StartWorker(run)
       /\ tree_expansion_workers' =
            [tree_expansion_workers EXCEPT ![run] = NewSlot(run)]
       /\ info_label' = Text("Expanding run", run)
       /\ UNCHANGED <<closed, children, loading_workers, loading_items,
                      expansion_workers, expansion_items>>

\* CopickTreeWidget.expand_voxel_spacing_async
expand_voxel_spacing_async(voxel_spacing) ==
  IF voxel_spacing \in children \/ tree_expansion_workers[voxel_spacing] # 0
  THEN Skip(tree_expansion_workers[voxel_spacing] # 0, voxel_spacing)
  ELSE /\ CanStart(voxel_spacing)
       /\ add_loading_indicator(voxel_spacing)
       /\ tree_expansion_items' =
            [tree_expansion_items EXCEPT ![voxel_spacing] = "live"]
       /\ add_operation(OperationId(voxel_spacing),
                        Text("Expanding voxel spacing", voxel_spacing))
       /\ StartWorker(voxel_spacing)
       /\ tree_expansion_workers' =
            [tree_expansion_workers EXCEPT ![voxel_spacing] = NewSlot(voxel_spacing)]
       /\ info_label' = Text("Expanding voxel spacing", voxel_spacing)
       /\ UNCHANGED <<closed, children, loading_workers, loading_items,
                      expansion_workers, expansion_items>>

\* CopickPlugin.load_tomogram_async; item is "live" (a tree item) or "none"
load_tomogram_async(tomogram, item) ==
  IF loading_workers[tomogram] # 0
  THEN Skip(TRUE, tomogram)
  ELSE /\ CanStart(tomogram)
       /\ indicator' = IF item # "none" THEN indicator \cup {tomogram} ELSE indicator
       /\ loading_items' = [loading_items EXCEPT ![tomogram] = item]
       /\ add_operation(OperationId(tomogram), Text("Loading tomogram", tomogram))
       /\ StartWorker(tomogram)
       /\ loading_workers' = [loading_workers EXCEPT ![tomogram] = NewSlot(tomogram)]
       /\ info_label' = Text("Loading tomogram", tomogram)
       /\ UNCHANGED <<closed, children, expansion_workers, expansion_items,
                      tree_expansion_workers, tree_expansion_items>>

\* the skipped submit reports itself in the status text
load_segmentation_async_SkipReports(segmentation, item) ==
  IF loading_workers[segmentation] # 0
  THEN /\ rejected' = segmentation
       /\ info_label' = Text("already loading", segmentation)
       /\ UNCHANGED <<closed, tree, registries, tracker, submitted, workers, overlapped>>
  ELSE /\ CanStart(segmentation)
       /\ add_loading_indicator(segmentation)
       /\ loading_items' = [loading_items EXCEPT ![segmentation] = item]
       /\ add_operation(OperationId(segmentation),
                        Text("Loading segmentation", segmentation))
       /\ StartWorker(segmentation)
       /\ loading_workers' =
            [loading_workers EXCEPT ![segmentation] = NewSlot(segmentation)]
       /\ info_label' = Text("Loading segmentation", segmentation)
       /\ UNCHANGED <<closed, children, expansion_workers, expansion_items,
                      tree_expansion_workers, tree_expansion_items>>

\* CopickPlugin.load_segmentation_async
load_segmentation_async(segmentation, item) ==
  IF loading_workers[segmentation] # 0
  THEN Skip(TRUE, segmentation)
  ELSE /\ CanStart(segmentation)
       /\ add_loading_indicator(segmentation)
       /\ loading_items' = [loading_items EXCEPT ![segmentation] = item]
       /\ add_operation(OperationId(segmentation),
                        Text("Loading segmentation", segmentation))
       /\ StartWorker(segmentation)
       /\ loading_workers' =
            [loading_workers EXCEPT ![segmentation] = NewSlot(segmentation)]
       /\ info_label' = Text("Loading segmentation", segmentation)
       /\ UNCHANGED <<closed, children, expansion_workers, expansion_items,
                      tree_expansion_workers, tree_expansion_items>>

\* CopickPlugin.save_segmentation_async; save is the key of a new save_params
save_segmentation_async(save) ==
  /\ CanStart(save)
  /\ add_operation(OperationId(save), Text("Saving segmentation", save))
  /\ StartWorker(save)
  /\ loading_workers' = [loading_workers EXCEPT ![save] = NewSlot(save)]
  /\ info_label' = Text("Saving segmentation", save)
  /\ UNCHANGED <<closed, children, indicator, loading_items, expansion_workers,
                 expansion_items, tree_expansion_workers, tree_expansion_items>>


(***************************************************************************)
(* Result, error and done handlers.                                        *)
(***************************************************************************)
\* the progress handler also writes the message into the loading label
on_progress_UpdatesLoadingStatus(k) ==
  /\ info_label' = Text("progress", k)
  /\ loading_label' = IF active_operations # {} THEN Text("progress", k)
                      ELSE loading_label
  /\ UNCHANGED <<closed, tree, registries, active_operations, loading_visible>>

\* CopickPlugin.on_progress
on_progress(k) ==
  /\ info_label' = Text("progress", k)
  /\ UNCHANGED <<closed, tree, registries, tracker>>

\* CopickTreeWidget.on_run_expanded / on_voxel_spacing_expanded: the item gets
\* its children and the operation id is removed last
on_expanded(e, what) ==
  LET ref == tree_expansion_items[e] IN
  IF ref = "absent"
  THEN /\ remove_operation(OperationId(e))
       /\ UNCHANGED <<closed, tree, registries, info_label>>
  ELSE \E outcome \in ItemCallOutcomes(ref) :
         IF outcome = "raises"
         THEN UNCHANGED <<closed, tree, registries, tracker, info_label>>
         ELSE /\ remove_loading_indicator(e, ref)
              /\ children' = IF ref = "live" THEN children \cup {e} ELSE children
              /\ info_label' = Text(what, e)
              /\ remove_operation(OperationId(e))
              /\ UNCHANGED <<closed, registries>>

on_run_expanded(run) == on_expanded(run, "Expanded run")

on_voxel_spacing_expanded(voxel_spacing) ==
  on_expanded(voxel_spacing, "Expanded voxel spacing")

\* the result handler leaves the operation id in the tracker
on_loaded_KeepsOperation(e, what) ==
  /\ remove_loading_indicator(e, loading_items[e])
  /\ info_label' = Text(what, e)
  /\ UNCHANGED <<closed, children, registries, tracker>>

\* CopickPlugin.on_tomogram_loaded / on_segmentation_loaded: the indicator of
\* the item goes first, then the operation id, then the layer is added
on_loaded(e, what) ==
  \E outcome \in ItemCallOutcomes(loading_items[e]) :
    IF outcome = "raises"
    THEN UNCHANGED <<closed, tree, registries, tracker, info_label>>
    ELSE /\ remove_loading_indicator(e, loading_items[e])
         /\ remove_operation(OperationId(e))
         /\ info_label' = Text(what, e)
         /\ UNCHANGED <<closed, children, registries>>

on_tomogram_loaded(tomogram) == on_loaded(tomogram, "Loaded Tomogram")

on_segmentation_loaded(segmentation) == on_loaded(segmentation, "Loaded Segmentation")

\* CopickPlugin.on_error: the operation id goes first; the maps consulted are
\* the plugin's own
on_error(e) ==
  /\ remove_operation(OperationId(e))
  /\ IF e \in LoadEntities /\ loading_items[e] # "absent"
     THEN \E outcome \in ItemCallOutcomes(loading_items[e]) :
            IF outcome = "raises"
            THEN UNCHANGED <<closed, tree, registries, info_label>>
            ELSE /\ remove_loading_indicator(e, loading_items[e])
                 /\ cleanup_worker(e)
                 /\ info_label' = Text("Error", e)
                 /\ UNCHANGED <<closed, children, expansion_workers, expansion_items,
                                tree_expansion_workers, tree_expansion_items>>
     ELSE IF e \in ExpandEntities /\ expansion_items[e] # "absent"
     THEN \E outcome \in ItemCallOutcomes(expansion_items[e]) :
            IF outcome = "raises"
            THEN UNCHANGED <<closed, tree, registries, info_label>>
            ELSE /\ remove_loading_indicator(e, expansion_items[e])
                 /\ expansion_workers' = [expansion_workers EXCEPT ![e] = 0]
                 /\ expansion_items' = [expansion_items EXCEPT ![e] = "absent"]
                 /\ info_label' = Text("Error", e)
                 /\ UNCHANGED <<closed, children, loading_workers, loading_items,
                                tree_expansion_workers, tree_expansion_items>>
     ELSE /\ info_label' = Text("Error", e)
          /\ UNCHANGED <<closed, tree, registries>>

\* every item reference of a map dangles once the tree has been cleared
Dangling(items) ==
  [e \in DOMAIN items |-> IF items[e] = "live" THEN "stale" ELSE items[e]]

\* CopickPlugin.populate_tree -> CopickTreeWidget.populate_tree: clear() deletes
\* every item, then one new item per run is created
populate_tree ==
  /\ children' = {}
  /\ indicator' = {}
  /\ loading_items' = Dangling(loading_items)
  /\ expansion_items' = Dangling(expansion_items)
  /\ tree_expansion_items' = Dangling(tree_expansion_items)
  /\ UNCHANGED <<loading_workers, expansion_workers, tree_expansion_workers>>

\* CopickPlugin.on_segmentation_saved
on_segmentation_saved(save, success) ==
  /\ IF success
     THEN /\ info_label' = Text("Segmentation saved", save)
          /\ populate_tree
     ELSE /\ info_label' = Text("Failed to save segmentation", save)
          /\ UNCHANGED <<tree, registries>>
  /\ remove_operation(OperationId(save))
  /\ UNCHANGED closed

\* CopickPlugin.on_save_error
on_save_error(save) ==
  /\ info_label' = Text("Error saving segmentation", save)
  /\ remove_operation(OperationId(save))
  /\ UNCHANGED <<closed, tree, registries>>

(***************************************************************************)
(* The events of the interface thread.                                     *)
(***************************************************************************)
\* CopickTreeWidget.handle_item_expand
handle_item_expand(e) ==
  /\ ~closed
  /\ e \in ExpandEntities
  /\ ItemExists(e)
  /\ IF KindOf(e) = "run" THEN expand_run_async(e) ELSE expand_voxel_spacing_async(e)
  /\ UNCHANGED beside_plugin

\* CopickTreeWidget.handle_item_click, with lazy_load_voxel_spacing
handle_item_click(e) ==
  /\ ~closed
  /\ ItemExists(e)
  /\ CASE KindOf(e) = "run" ->
            /\ info_label' = Text("Run", e)
            /\ rejected' = NoKeyRef
            /\ UNCHANGED <<closed, tree, registries, tracker, submitted, workers, overlapped>>
       [] KindOf(e) = "vs" ->
            \* the text is set, then the submit is called if the item has no child
            IF e \in children \/ tree_expansion_workers[e] # 0
            THEN /\ info_label' = Text("Voxel Spacing", e)
                 /\ rejected' = IF e \notin children THEN e ELSE NoKeyRef
                 /\ UNCHANGED <<closed, tree, registries, tracker, submitted, workers, overlapped>>
            ELSE expand_voxel_spacing_async(e)
       [] KindOf(e) = "tomo" -> load_tomogram_async(e, "live")
       [] KindOf(e) = "seg" -> load_segmentation_async(e, "live")
  /\ UNCHANGED beside_plugin

\* NapariCopickInfoWidget._on_tomogram_clicked
info_tomogram_clicked(tomogram) ==
  /\ ~closed
  /\ load_tomogram_async(tomogram, "none")
  /\ UNCHANGED beside_plugin

\* CopickPlugin.open_save_segmentation_dialog, the dialog accepted
open_save_segmentation_dialog(save) ==
  /\ ~closed
  /\ Alive(save) = {}
  /\ \A other \in Saves : other[2] < save[2] => Alive(other) # {}
  /\ save_segmentation_async(save)
  /\ UNCHANGED beside_plugin

\* CopickPlugin.open_edit_objects_dialog, the dialog accepted
open_edit_objects_dialog ==
  /\ ~closed
  /\ populate_tree
  /\ info_label' = Text("Updated object types", NoKeyRef)
  /\ UNCHANGED <<closed, tracker, submitted, workers, overlapped>>
  /\ rejected' = NoKeyRef
  /\ UNCHANGED beside_plugin

\* the workers a map holds are asked to quit
QuitAll(ws, registry) ==
  [k \in DOMAIN ws |->
     [n \in Slots |->
        IF k \in DOMAIN registry /\ registry[k] = n
        THEN [ws[k][n] EXCEPT !.quit = TRUE]
        ELSE ws[k][n]]]

\* CopickPlugin.closeEvent -> cleanup_workers, CopickTreeWidget.cleanup_workers
closeEvent ==
  /\ ~closed
  /\ closed' = TRUE
  /\ workers' = QuitAll(QuitAll(QuitAll(workers, loading_workers),
                                expansion_workers), tree_expansion_workers)
  /\ loading_workers' = [k \in LoadKeys |-> 0]
  /\ loading_items' = [e \in LoadEntities |-> "absent"]
  /\ expansion_workers' = [e \in ExpandEntities |-> 0]
  /\ expansion_items' = [e \in ExpandEntities |-> "absent"]
  /\ tree_expansion_workers' = [e \in ExpandEntities |-> 0]
  /\ tree_expansion_items' = [e \in ExpandEntities |-> "absent"]
  /\ UNCHANGED <<tree, tracker, info_label, submitted, overlapped>>
  /\ rejected' = NoKeyRef
  /\ UNCHANGED beside_plugin

\* worker.yielded -> on_progress
yielded(k, n) ==
  /\ workers[k][n].st = "running"
  /\ on_progress(k)
  /\ UNCHANGED <<submitted, workers, overlapped>>
  /\ rejected' = NoKeyRef
  /\ UNCHANGED beside_plugin

\* worker.returned -> the result handler of the kind
returned(k, n) ==
  /\ workers[k][n].st = "running"
  /\ CASE KindOf(k) = "run"  -> on_run_expanded(k)
       [] KindOf(k) = "vs"   -> on_voxel_spacing_expanded(k)
       [] KindOf(k) = "tomo" -> on_tomogram_loaded(k)
       [] KindOf(k) = "seg"  -> on_segmentation_loaded(k)
       [] KindOf(k) = "save" -> \E success \in BOOLEAN : on_segmentation_saved(k, success)
  /\ SetState(k, n, "returned")
  /\ UNCHANGED <<submitted, overlapped>>
  /\ rejected' = NoKeyRef
  /\ UNCHANGED beside_plugin

\* worker.errored -> on_error / on_save_error
errored(k, n) ==
  /\ workers[k][n].st = "running"
  /\ IF KindOf(k) = "save" THEN on_save_error(k) ELSE on_error(k)
  /\ SetState(k, n, "errored")
  /\ UNCHANGED <<submitted, overlapped>>
  /\ rejected' = NoKeyRef
  /\ UNCHANGED beside_plugin

\* the worker has emitted its last signal before finished
CanFinish(w) == w.st \in {"returned", "errored"} \/ (w.st = "running" /\ w.quit)

\* worker.finished -> cleanup_worker / cleanup_expansion_worker / cleanup_save_worker
finished(k, n) ==
  /\ CanFinish(workers[k][n])
  /\ CASE KindOf(k) \in {"run", "vs"} ->
            /\ cleanup_expansion_worker(k)
            /\ UNCHANGED <<loading_workers, loading_items, expansion_workers,
                           expansion_items>>
       [] KindOf(k) \in {"tomo", "seg"} ->
            /\ cleanup_worker(k)
            /\ UNCHANGED <<expansion_workers, expansion_items,
                           tree_expansion_workers, tree_expansion_items>>
       [] KindOf(k) = "save" ->
            /\ cleanup_save_worker(k)
            /\ UNCHANGED <<expansion_workers, expansion_items,
                           tree_expansion_workers, tree_expansion_items>>
  /\ workers' = [workers EXCEPT ![k][n] = Free]
  /\ UNCHANGED <<closed, tree, tracker, info_label, submitted, overlapped>>
  /\ rejected' = NoKeyRef
  /\ UNCHANGED beside_plugin

Next ==
  \/ \E e \in ExpandEntities : handle_item_expand(e)
  \/ \E e \in Entities : handle_item_click(e)
  \/ \E t \in Tomograms : info_tomogram_clicked(t)
  \/ \E save \in Saves : open_save_segmentation_dialog(save)
  \/ open_edit_objects_dialog
  \/ closeEvent
  \/ \E k \in Keys, n \in Slots : yielded(k, n)
  \/ \E k \in Keys, n \in Slots : returned(k, n)
  \/ \E k \in Keys, n \in Slots : errored(k, n)
  \/ \E k \in Keys, n \in Slots : finished(k, n)

Spec == Init /\ [][Next]_vars

TypeOK ==
  /\ closed \in BOOLEAN
  /\ children \subseteq ExpandEntities
  /\ indicator \subseteq Entities
  /\ \A k \in LoadKeys : loading_workers[k] \in 0..MaxPerKey
  /\ \A e \in LoadEntities : loading_items[e] \in {"absent", "none", "live", "stale"}
  /\ \A e \in ExpandEntities : tree_expansion_workers[e] \in 0..MaxPerKey
  /\ loading_visible \in BOOLEAN
  /\ Cardinality(InFlight) <= MaxInFlight

(***************************************************************************)
(* Properties of the plugin specification.                                 *)
(***************************************************************************)
\* the workers of key k whose outcome has not been handled
Running(k) == { n \in Slots : workers[k][n].st = "running" }

\* the registry entry of key k: a slot, or 0
Registered(k) ==
  IF k \in ExpandEntities THEN tree_expansion_workers[k] ELSE loading_workers[k]

\* the step creates a worker for k
Starts(k) == \E n \in Slots : workers[k][n].st = "free" /\ workers[k][n].st' = "running"

\* the step handles the finished signal of a worker of k that had an outcome
Finishes(k) ==
  \E n \in Slots : /\ workers[k][n].st \in {"returned", "errored"}
                   /\ workers[k][n].st' = "free"

\* C1: a submit of entity e made while a task of e has not completed starts no
\* worker; afterwards exactly one worker runs for e and the registry holds its
\* entry.  The step is a submit of e when it creates a worker for e or skips e.
C1_SecondSubmitIsNoOp ==
  [][\A e \in Entities :
       (Running(e) # {} /\ (Starts(e) \/ rejected' = e))
         => /\ ~Starts(e)
            /\ Cardinality(Running(e)') = 1
            /\ Registered(e)' # 0]_vars

\* C2: the loading widget is visible exactly when active_operations is not empty
C2_VisibleIffActive == loading_visible <=> (active_operations # {})

\* an operation has ended while another one is still active
C2_Witness ==
  /\ loading_visible
  /\ \E k \in Keys, n \in Slots :
       /\ workers[k][n].st \in {"returned", "errored"}
       /\ OperationId(k) \notin active_operations
  /\ \E k \in Keys : Running(k) # {} /\ OperationId(k) \in active_operations

\* C3: with tasks on distinct entities only, the busy indicator is on as long as
\* the outcome of any of them is still to come
C3_BusyUntilLastCompletes ==
  ~overlapped =>
    \A e \in Entities : Running(e) # {} => loading_visible

\* C5: when the finished signal of a task that succeeded or failed has been
\* handled, the registry has no entry for its key and its operation id is not
\* in active_operations
C5_CleanAfterFinished ==
  [][\A k \in Keys :
       Finishes(k) => /\ Registered(k)' = 0
                      /\ OperationId(k) \notin active_operations']_vars

\* C6: at most one worker is in flight per entity
C6_AtMostOneInFlight ==
  \A e \in Entities : Cardinality(Running(e)) <= 1

\* C7: a submit skipped as a duplicate leaves the registries, the tracker, the
\* tree and the workers as they were; the status text is the one at the call
\* of the submit, which for a click on a voxel spacing item is the text the
\* click handler has just written
C7_RejectedSubmitChangesNothing ==
  [][rejected' # NoKeyRef =>
       /\ UNCHANGED <<closed, tree, registries, tracker, submitted, workers>>
       /\ \/ info_label' = info_label
          \/ /\ KindOf(rejected') = "vs"
             /\ info_label' = Text("Voxel Spacing", rejected')]_vars

\* the last step skipped a submit of a key whose worker is still running
C7_Witness ==
  /\ rejected # NoKeyRef
  /\ Running(rejected) # {}
  /\ Registered(rejected) # 0
  /\ Cardinality(InFlight) = 1

(***************************************************************************)
(* SpecWorker: a worker that load_tomogram_async / load_segmentation_async *)
(* created, connected and started.                                         *)
(***************************************************************************)
WInit ==
  /\ w_kind \in {"tomogram", "segmentation"}
  /\ w_keys \in KeyLists
  /\ w_req \in ReqLevels
  /\ w_base \in BaseVoxelSizes
  /\ w_fail \in {"none", "zarr", "open", "read"}
  /\ w_pc = "start"
  /\ w_level = w_req
  /\ w_data_key = NoKey
  /\ w_voxel = NoVoxel
  /\ w_phase = "loop"
  /\ w_abort = FALSE
  /\ w_queue = <<>>
  /\ w_seen = <<>>
  /\ PInit
  /\ GIdle

\* the signals the run loop emits for a generator step, and where it goes next
StepSignals(step) ==
  CASE step.ev = "yield"  -> <<SigYielded(step)>>
    [] step.ev = "raise"  -> <<SigErrored(step.text)>>
    [] step.ev = "return" -> <<>>

StepPhase(step) ==
  CASE step.ev = "yield"  -> "loop"
    [] step.ev = "raise"  -> "finishing"
    [] step.ev = "return" -> "returning"

\* GeneratorWorker.work: abort_requested is false, the generator is resumed
WSend ==
  /\ w_phase = "loop"
  /\ ~w_abort
  /\ LET step == WorkerGen(w_kind, w_pc, w_keys, w_req, w_base, w_fail, w_level,
                           w_data_key, w_voxel)
     IN  /\ w_pc' = step.pc
         /\ w_level' = step.level
         /\ w_data_key' = step.key
         /\ w_voxel' = step.voxel
         /\ w_queue' = w_queue \o StepSignals(step)
         /\ w_phase' = StepPhase(step)
  /\ UNCHANGED <<w_kind, w_keys, w_req, w_base, w_fail, w_abort, w_seen>>
  /\ UNCHANGED beside_worker

\* GeneratorWorker.work: abort_requested is true at the top of the loop
WAbort ==
  /\ w_phase = "loop"
  /\ w_abort
  /\ w_phase' = "finishing"
  /\ UNCHANGED <<w_kind, w_keys, w_req, w_base, w_fail, w_pc, w_level, w_data_key,
                 w_voxel, w_abort, w_queue, w_seen>>
  /\ UNCHANGED beside_worker

\* WorkerBase.run: the value is emitted unless abort was requested
WReturn ==
  /\ w_phase = "returning"
  /\ w_queue' = IF w_abort THEN w_queue
                ELSE Append(w_queue, SigReturned(w_level, w_data_key, w_voxel))
  /\ w_phase' = "finishing"
  /\ UNCHANGED <<w_kind, w_keys, w_req, w_base, w_fail, w_pc, w_level, w_data_key,
                 w_voxel, w_abort, w_seen>>
  /\ UNCHANGED beside_worker

\* WorkerBase.run: finished is emitted last
WFinish ==
  /\ w_phase = "finishing"
  /\ w_queue' = Append(w_queue, SigFinished)
  /\ w_phase' = "exit"
  /\ UNCHANGED <<w_kind, w_keys, w_req, w_base, w_fail, w_pc, w_level, w_data_key,
                 w_voxel, w_abort, w_seen>>
  /\ UNCHANGED beside_worker

\* cleanup_workers: worker.quit() on a registered worker
WQuit ==
  /\ ~w_abort
  /\ ~Contains(w_seen, SigFinished)
  /\ w_abort' = TRUE
  /\ UNCHANGED <<w_kind, w_keys, w_req, w_base, w_fail, w_pc, w_level, w_data_key,
                 w_voxel, w_phase, w_queue, w_seen>>
  /\ UNCHANGED beside_worker

\* the newest queued signal is taken first
NextSignal_Newest(queue) == Len(queue)

\* the queued connections of a worker's signals deliver in emission order
NextSignal(queue) == 1

RemoveAt(seq, i) == SubSeq(seq, 1, i - 1) \o SubSeq(seq, i + 1, Len(seq))

\* the interface thread runs the callback connected to the next queued signal
WDeliver ==
  /\ Len(w_queue) > 0
  /\ w_seen' = Append(w_seen, w_queue[NextSignal(w_queue)])
  /\ w_queue' = RemoveAt(w_queue, NextSignal(w_queue))
  /\ UNCHANGED <<w_kind, w_keys, w_req, w_base, w_fail, w_pc, w_level, w_data_key,
                 w_voxel, w_phase, w_abort>>
  /\ UNCHANGED beside_worker

WNext == WSend \/ WAbort \/ WReturn \/ WFinish \/ WQuit \/ WDeliver

SpecWorker == WInit /\ [][WNext]_vars

WTypeOK ==
  /\ w_phase \in {"loop", "returning", "finishing", "exit"}
  /\ w_pc \in {"start", "opening", "level", "memory", "closed"}

(***************************************************************************)
(* Properties of the workers, stated for SpecWorker.                       *)
(***************************************************************************)
\* every signal the worker has emitted so far, delivered or still queued
WEmitted == w_seen \o w_queue

\* numLevels: how many members of the group have a non-negative integer name
NumLevels == Cardinality({ i \in 1..Len(w_keys) : isdigit(w_keys[i]) })

Min(a, b) == IF a <= b THEN a ELSE b

IsOutcome(s) == s.sig \in {"returned", "errored"}

\* the worker has ended and every signal it emitted has been delivered
WDone == w_phase = "exit" /\ Len(w_queue) = 0

\* the order in which a worker function yields its messages
MessageRank(text) ==
  CASE text = "Opening zarr group" -> 1
    [] text \in {"Loading resolution level",
                 "Loading segmentation data from level"} -> 2
    [] text \in {"Loading image data into memory",
                 "Loading segmentation data into memory"} -> 3

C8_TomogramLevelClamped ==
  (w_kind = "tomogram" /\ NumLevels >= 1 /\ w_req >= 0) =>
    LET effective == Min(w_req, NumLevels - 1) IN
    /\ \A i \in 1..Len(WEmitted) :
         /\ WEmitted[i].sig = "errored" =>
              WEmitted[i].text = "StorageIOError" /\ w_fail # "none"
         /\ WEmitted[i].sig = "returned" =>
              /\ WEmitted[i].level = effective
              /\ WEmitted[i].voxel = <<w_base * Pow2(effective), 1>>
         /\ (WEmitted[i].sig = "yielded"
             /\ WEmitted[i].text = "Loading resolution level") =>
              WEmitted[i].level = effective
    /\ (WDone /\ ~w_abort /\ w_fail = "none") =>
         \E i \in 1..Len(w_seen) : w_seen[i].sig = "returned"

\* numLevels = 3 and r = 5: the result reports level 2 and 4 times the base size
C8_Witness ==
  /\ w_kind = "tomogram"
  /\ NumLevels = 3
  /\ w_req = 5
  /\ \E i \in 1..Len(w_seen) :
       /\ w_seen[i].sig = "returned"
       /\ w_seen[i].level = 2
       /\ w_seen[i].voxel = <<w_base * 4, 1>>

\* C9: a tomogram load on a store that opens and has no numeric-named member
\* raises NoScaleLevels whatever level is requested: the error is delivered, no
\* result is, and the only progress event is the opening message.
C9_NoScaleLevelsFails ==
  (w_kind = "tomogram" /\ NumLevels = 0 /\ w_fail \notin {"zarr", "open"}) =>
    /\ \A i \in 1..Len(WEmitted) :
         /\ WEmitted[i].sig # "returned"
         /\ WEmitted[i].sig = "errored" => WEmitted[i].text = "NoScaleLevels"
         /\ WEmitted[i].sig = "yielded" =>
              i = 1 /\ WEmitted[i].text = "Opening zarr group"
    /\ (WDone /\ ~w_abort) =>
         /\ Len(w_seen) = 3
         /\ w_seen[1].sig = "yielded"
         /\ w_seen[2] = SigErrored("NoScaleLevels")
         /\ w_seen[3].sig = "finished"

\* a group holding only "data" and "mask", level 5 requested: the error arrived
C9_Witness ==
  /\ w_kind = "tomogram"
  /\ NumLevels = 0
  /\ Len(w_keys) = 2
  /\ w_req = 5
  /\ Len(w_seen) = 3
  /\ w_seen[2] = SigErrored("NoScaleLevels")

\* C10: a segmentation load on a group that has a member named "data" selects
\* "data" whatever level is requested, reports level 0 and uses the base voxel
\* size unscaled.
C10_DataMemberWins ==
  (w_kind = "segmentation" /\ Contains(w_keys, NameData)) =>
    /\ w_pc \in {"level", "memory"} => w_data_key = NameData
    /\ \A i \in 1..Len(WEmitted) :
         /\ WEmitted[i].sig = "returned" =>
              /\ WEmitted[i].key = NameData
              /\ WEmitted[i].level = 0
              /\ WEmitted[i].voxel = <<w_base, 1>>
         /\ WEmitted[i].sig = "errored" =>
              WEmitted[i].text = "StorageIOError" /\ w_fail # "none"

\* "data" next to "0" and "1", level 2 requested: the result is "data" at level 0
C10_Witness ==
  /\ w_kind = "segmentation"
  /\ Contains(w_keys, NameData)
  /\ Contains(w_keys, NameZero)
  /\ NumLevels = 2
  /\ w_req = 2
  /\ \E i \in 1..Len(w_seen) :
       /\ w_seen[i].sig = "returned"
       /\ w_seen[i].key = NameData
       /\ w_seen[i].level = 0

(***************************************************************************)
(* SpecGroup: the loop of expand_run_worker over run.picks and the loop of *)
(* group_segmentations_by_user_session, one item per step.                 *)
(***************************************************************************)
GInit ==
  /\ g_kind \in {"picks", "segmentations"}
  /\ g_items \in ItemLists
  /\ g_pos = 0
  /\ g_dict = <<>>
  /\ PInit
  /\ WIdle

\* for pick in picks: ...
expand_run_worker_loop ==
  /\ g_kind = "picks"
  /\ g_pos < Len(g_items)
  /\ g_dict' = GroupAdd(g_dict, g_items[g_pos + 1].user_id,
                        g_items[g_pos + 1].session_id, g_pos + 1)
  /\ g_pos' = g_pos + 1
  /\ UNCHANGED <<g_kind, g_items>>
  /\ UNCHANGED beside_group

\* for segmentation in segmentations: ...
group_segmentations_by_user_session ==
  /\ g_kind = "segmentations"
  /\ g_pos < Len(g_items)
  /\ g_dict' = GroupAdd(g_dict, g_items[g_pos + 1].user_id,
                        g_items[g_pos + 1].session_id, g_pos + 1)
  /\ g_pos' = g_pos + 1
  /\ UNCHANGED <<g_kind, g_items>>
  /\ UNCHANGED beside_group

GNext == expand_run_worker_loop \/ group_segmentations_by_user_session

SpecGroup == GInit /\ [][GNext]_vars

\* the places <<u, s, n>> of the structure and the item at each
GPlaces ==
  { <<u, s, n>> \in (1..Len(g_dict)) \X (1..MaxItems) \X (1..MaxItems) :
      /\ s <= Len(g_dict[u].val)
      /\ n <= Len(g_dict[u].val[s].val) }

GItemAt(pl) == g_dict[pl[1]].val[pl[2]].val[pl[3]]

\* C11: the structure holds every item taken so far exactly once, under the
\* key of its user id and, below it, of its session id; the items of a group
\* are in the order in which the loop met them; no key is there twice
C11_GroupedByUserAndSession ==
  /\ \A i \in 1..g_pos :
       Cardinality({ pl \in GPlaces : GItemAt(pl) = i }) = 1
  /\ \A pl \in GPlaces :
       /\ GItemAt(pl) \in 1..g_pos
       /\ g_dict[pl[1]].key = g_items[GItemAt(pl)].user_id
       /\ g_dict[pl[1]].val[pl[2]].key = g_items[GItemAt(pl)].session_id
       /\ \A m \in 1..(pl[3] - 1) : GItemAt(<<pl[1], pl[2], m>>) < GItemAt(pl)
  /\ \A u1, u2 \in 1..Len(g_dict) : g_dict[u1].key = g_dict[u2].key => u1 = u2
  /\ \A u \in 1..Len(g_dict) : \A s1, s2 \in 1..Len(g_dict[u].val) :
       g_dict[u].val[s1].key = g_dict[u].val[s2].key => s1 = s2

\* picks [(A,1,X), (A,1,Y), (B,2,X)] have given {A: {1: [X, Y]}, B: {2: [X]}}
C11_Witness ==
  /\ g_kind = "picks"
  /\ g_items = << [user_id |-> "A", session_id |-> 1, name |-> "X"],
                  [user_id |-> "A", session_id |-> 1, name |-> "Y"],
                  [user_id |-> "B", session_id |-> 2, name |-> "X"] >>
  /\ g_pos = 3
  /\ g_dict = << [key |-> "A", val |-> << [key |-> 1, val |-> <<1, 2>>] >>],
                 [key |-> "B", val |-> << [key |-> 2, val |-> <<3>>] >>] >>

(***************************************************************************)
(* SpecLoad: one tomogram load from the click to the cleanup.  The click   *)
(* in the info widget submits the load, the worker thread runs the         *)
(* generator, and each delivered signal runs the callback the plugin       *)
(* connected to it.                                                        *)
(***************************************************************************)
\* the tomogram the info widget shows
LoadTarget == <<"tomo", 1>>

\* the slot of the worker of the load
LSlot == CHOOSE n \in Slots : workers[LoadTarget][n].st # "free"

\* NapariCopickInfoWidget._on_tomogram_clicked -> load_tomogram_async: the
\* worker is created with the level of the resolution combo and started
LSubmit ==
  /\ ~closed
  /\ load_tomogram_async(LoadTarget, "none")
  /\ IF loading_workers[LoadTarget] # 0
     THEN UNCHANGED wvars
     ELSE /\ submitted = 0
          /\ w_kind' = "tomogram"
          /\ w_keys' \in KeyLists
          /\ w_req' \in ReqLevels
          /\ w_base' \in BaseVoxelSizes
          /\ w_fail' \in {"none", "zarr", "open", "read"}
          /\ w_pc' = "start"
          /\ w_level' = w_req'
          /\ w_data_key' = NoKey
          /\ w_voxel' = NoVoxel
          /\ w_phase' = "loop"
          /\ w_abort' = FALSE
          /\ w_queue' = <<>>
          /\ w_seen' = <<>>
  /\ UNCHANGED <<gvars, svars, galvars, dvars>>

\* the callback connected to the signal
LCallback(sig) ==
  CASE sig.sig = "yielded" ->
         /\ on_progress(LoadTarget)
         /\ UNCHANGED workers
    [] sig.sig = "returned" ->
         /\ on_tomogram_loaded(LoadTarget)
         /\ SetState(LoadTarget, LSlot, "returned")
    [] sig.sig = "errored" ->
         /\ on_error(LoadTarget)
         /\ SetState(LoadTarget, LSlot, "errored")
    [] sig.sig = "finished" ->
         /\ cleanup_worker(LoadTarget)
         /\ workers' = [workers EXCEPT ![LoadTarget][LSlot] = Free]
         /\ UNCHANGED <<closed, tree, tracker, info_label, expansion_workers,
                        expansion_items, tree_expansion_workers,
                        tree_expansion_items>>

\* the interface thread takes the next queued signal and runs its callback
LDeliver ==
  /\ Len(w_queue) > 0
  /\ w_seen' = Append(w_seen, w_queue[NextSignal(w_queue)])
  /\ w_queue' = RemoveAt(w_queue, NextSignal(w_queue))
  /\ LCallback(w_queue[NextSignal(w_queue)])
  /\ rejected' = NoKeyRef
  /\ UNCHANGED <<submitted, overlapped>>
  /\ UNCHANGED <<w_kind, w_keys, w_req, w_base, w_fail, w_pc, w_level, w_data_key,
                 w_voxel, w_phase, w_abort>>
  /\ UNCHANGED <<gvars, svars, galvars, dvars>>

LNext == LSubmit \/ WSend \/ WReturn \/ WFinish \/ LDeliver

SpecLoad == Init /\ [][LNext]_vars

\* the store of the scenario: the members "0", "1", "2" in any order, level 1
\* requested, base voxel size 10, no storage call failing
LScenario ==
  /\ submitted = 1
  /\ ScaleLevels(w_keys) = << <<"0">>, <<"1">>, <<"2">> >>
  /\ Len(w_keys) = 3
  /\ w_req = 1
  /\ w_base = 10
  /\ w_fail = "none"

\* the events of the scenario in the order of their delivery
LExpected ==
  << Signal("yielded", "Opening zarr group", 1, NoKey, NoVoxel),
     Signal("yielded", "Loading resolution level", 1, NoKey, NoVoxel),
     Signal("yielded", "Loading image data into memory", 1, NoKey, NoVoxel),
     SigReturned(1, <<"1">>, <<20, 1>>),
     SigFinished >>

\* the load is over: the thread has exited and every signal is delivered
LOver == w_phase = "exit" /\ w_queue = <<>>

\* C12: a tomogram load at level 1 of a store with the levels "0", "1", "2" and
\* base voxel size 10 delivers a progress event for the opening step, one for
\* the loading of level 1 (and one for the read into memory), then one result
\* with voxel size 20 and level 1, then exactly one finished event; after it
\* the registry holds nothing for the tomogram and the tracker is empty.
C12_EndToEndTomogramLoad ==
  LScenario =>
    /\ Len(w_seen) <= Len(LExpected)
    /\ w_seen = SubSeq(LExpected, 1, Len(w_seen))
    /\ LOver =>
         /\ w_seen = LExpected
         /\ loading_workers[LoadTarget] = 0
         /\ loading_items[LoadTarget] = "absent"
         /\ Alive(LoadTarget) = {}
         /\ active_operations = {}
         /\ ~loading_visible

\* the scenario has run to its end
C12_Witness ==
  /\ LScenario
  /\ LOver
  /\ w_seen = LExpected
  /\ active_operations = {}

(***************************************************************************)
(* Properties of the failure path of the plugin (specification Spec).      *)
(***************************************************************************)
\* the step runs the error callback of a worker of k
Fails(k) ==
  \E n \in Slots : workers[k][n].st = "running" /\ workers'[k][n].st = "errored"

\* C13: when a task fails, the loading indicator staged on its tree item at
\* submit time is removed, for loads and for expansions started from the tree.
C13_IndicatorRemovedOnFailure ==
  [][\A k \in Entities : Fails(k) => k \notin indicator']_vars

\* C14: when a worker of any kind fails, the status text becomes "Error:
\* <message>" for that worker and its operation id leaves the tracker, so the
\* loading widget is hidden if no other operation is active.
C14_ErrorTextAndTrackerOnFailure ==
  [][\A k \in Keys : Fails(k) =>
       /\ info_label' = Text("Error", k)
       /\ OperationId(k) \notin active_operations'
       /\ (active_operations' = {} => ~loading_visible')]_vars

\* every map of the plugin and of the tree widget is empty
RegistriesEmpty ==
  /\ \A k \in LoadKeys : loading_workers[k] = 0
  /\ \A e \in LoadEntities : loading_items[e] = "absent"
  /\ \A e \in ExpandEntities :
       /\ expansion_workers[e] = 0 /\ expansion_items[e] = "absent"
       /\ tree_expansion_workers[e] = 0 /\ tree_expansion_items[e] = "absent"

\* C15: after teardown every registered worker has been asked to quit, every
\* registry map is empty, and the tracker's operation-id set is empty with the
\* loading widget hidden.
C15_TeardownClearsRegistryAndTracker ==
  [][(~closed /\ closed') =>
       /\ \A k \in Keys : Registered(k) # 0 => workers'[k][Registered(k)].quit
       /\ RegistriesEmpty'
       /\ active_operations' = {}
       /\ ~loading_visible']_vars

\* the registry part of the teardown
TeardownClearsRegistry ==
  [][(~closed /\ closed') =>
       /\ \A k \in Keys : Registered(k) # 0 => workers'[k][Registered(k)].quit
       /\ RegistriesEmpty']_vars

\* C16: two tasks in flight at the same time for different entities have
\* different operation ids, whatever their kinds.
C16_OperationIdsDistinct ==
  \A k1, k2 \in Keys :
    (k1 # k2 /\ Running(k1) # {} /\ Running(k2) # {}) =>
      OperationId(k1) # OperationId(k2)

\* C17: a save submitted for a target while a save of the same target is in
\* flight starts no second worker.  Every save of the model writes the same
\* target (the same object name, user, session and run); the save keys differ
\* by the identity of their parameter dictionaries only.
C17_OneSavePerTarget ==
  Cardinality({ save \in Saves : Running(save) # {} }) <= 1

\* the step runs the finished callback of a worker of k
Releases(k) ==
  \E n \in Slots : workers[k][n].st # "free" /\ workers'[k][n].st = "free"

\* the step runs the result or the error callback of a worker of k
Completes(k) ==
  \E n \in Slots : /\ workers[k][n].st = "running"
                   /\ workers'[k][n].st \in {"returned", "errored"}

\* C18: cleanup is idempotent.  A release of a key whose entry is already gone
\* leaves every registry map and the tracker as they were, the entries of other
\* tasks included; a remove of an operation id that is not in the set leaves
\* the set, the loading widget and its label as they were.
C18_CleanupIdempotent ==
  [][\A k \in Keys :
       /\ (Releases(k) /\ Registered(k) = 0) => UNCHANGED <<registries, tracker>>
       /\ (Completes(k) /\ OperationId(k) \notin active_operations) =>
            UNCHANGED tracker]_vars

\* a load failed, its error callback released the registry, and the finished
\* callback of the worker has released it once more
C18_Witness ==
  \E k \in LoadEntities :
    /\ info_label = Text("Error", k)
    /\ Alive(k) = {}
    /\ \E other \in Keys \ {k} : Registered(other) # 0

C20_BusyChangesOnEdgesOnly ==
  [][/\ (~loading_visible /\ loading_visible') <=>
          (active_operations = {} /\ active_operations' # {})
     /\ (loading_visible /\ ~loading_visible') <=>
          (active_operations # {} /\ active_operations' = {})]_vars

\* two operations are active: the second add met a non-empty set
C20_Witness ==
  /\ Cardinality(active_operations) = 2
  /\ loading_visible
  /\ submitted >= 3

\* the description a submit of k hands to _add_operation
Description(k) ==
  CASE KindOf(k) = "run"  -> Text("Expanding run", k)
    [] KindOf(k) = "vs"   -> Text("Expanding voxel spacing", k)
    [] KindOf(k) = "tomo" -> Text("Loading tomogram", k)
    [] KindOf(k) = "seg"  -> Text("Loading segmentation", k)
    [] KindOf(k) = "save" -> Text("Saving segmentation", k)

\* C21: an add of an operation id that is already in the set leaves the set
\* and the loading widget as they were and still replaces the label with the
\* new description; an add of a new id sets the label to its description too.
C21_AddOfPresentIdUpdatesLabelOnly ==
  [][\A k \in Keys : Starts(k) =>
       /\ loading_label' = Description(k)
       /\ OperationId(k) \in active_operations'
       /\ OperationId(k) \in active_operations =>
            /\ active_operations' = active_operations
            /\ loading_visible' = loading_visible]_vars

\* the second of two voxel-spacing expansions added the id the first had added
C21_Witness ==
  /\ \A vs \in VoxelSpacings : Running(vs) # {}
  /\ Cardinality(active_operations) = 1
  /\ loading_label[1] = "Expanding voxel spacing"

(***************************************************************************)
(* Properties of the level selection (specification SpecWorker).           *)
(***************************************************************************)
\* C22: a segmentation load on a group without a "data" member and with at
\* least one numeric-named member, asked for a level r >= 0, reports the level
\* min(r, numLevels - 1), reads the numeric member at that position of the
\* ascending numeric order and reports the voxel size base * 2^level,
\* whichever numeric names are present.
C22_SegmentationMultiscaleClamped ==
  (w_kind = "segmentation" /\ ~HasDataMember(w_keys) /\ NumLevels >= 1
   /\ w_req >= 0) =>
    LET effective == Min(w_req, NumLevels - 1) IN
    \A i \in 1..Len(WEmitted) :
      WEmitted[i].sig = "returned" =>
        /\ WEmitted[i].level = effective
        /\ WEmitted[i].key = ScaleLevels(w_keys)[effective + 1]
        /\ WEmitted[i].voxel = <<w_base * Pow2(effective), 1>>

\* the worker takes its level from the numeric members: every tomogram load,
\* and a segmentation load in its multiscale branch
WMultiscale ==
  \/ w_kind = "tomogram"
  \/ w_kind = "segmentation" /\ ~HasDataMember(w_keys) /\ Contains(w_keys, NameZero)

\* C23: for every requested level, negative ones included, and numLevels >= 1
\* the level a tomogram load or a multiscale segmentation load uses and
\* reports lies in 0..numLevels-1.
C23_EffectiveLevelInRange ==
  (WMultiscale /\ NumLevels >= 1) =>
    \A i \in 1..Len(WEmitted) :
      WEmitted[i].sig = "returned" =>
        /\ 0 <= WEmitted[i].level
        /\ WEmitted[i].level <= NumLevels - 1

\* the step runs the progress callback of a worker of k: only on_progress
\* writes a progress message into the status text
Progresses(k) == info_label' = Text("progress", k) /\ info_label' # info_label

\* C24: a progress event changes the status text only: the registry maps, the
\* operation-id set, the loading widget and its label, the indicators and
\* children of the tree items and the workers are as they were, for every kind
\* of task.
C24_ProgressChangesTextOnly ==
  [][\A k \in Keys : Progresses(k) =>
       UNCHANGED <<closed, tree, registries, tracker, workers>>]_vars

\* a progress message of a load arrived while the load was registered, its id
\* in the tracker and its indicator on the item
C24_Witness ==
  \E k \in LoadEntities :
    /\ info_label = Text("progress", k)
    /\ Running(k) # {}
    /\ Registered(k) # 0
    /\ k \in indicator
    /\ OperationId(k) \in active_operations

(***************************************************************************)
(* SpecSubmit: load_tomogram_async statement by statement.  The submit     *)
(* handler of the info widget is split where the worker is started: the    *)
(* statements up to worker.start() are one step, the write of the worker   *)
(* into loading_workers and of the status text the next.  The callbacks    *)
(* of the workers are queued to the interface thread and run when no       *)
(* handler is running on it.                                               *)
(***************************************************************************)
\* the interface thread is not inside a submit
InterfaceIdle == starting = NoStart

\* load_tomogram_async up to and including worker.start()
SStart(tomogram) ==
  /\ ~closed
  /\ InterfaceIdle
  /\ IF loading_workers[tomogram] # 0
     THEN Skip(TRUE, tomogram) /\ UNCHANGED starting
     ELSE /\ CanStart(tomogram)
          /\ loading_items' = [loading_items EXCEPT ![tomogram] = "none"]
          /\ add_operation(OperationId(tomogram), Text("Loading tomogram", tomogram))
          /\ StartWorker(tomogram)
          /\ starting' = <<tomogram, NewSlot(tomogram)>>
          /\ UNCHANGED <<closed, tree, loading_workers, expansion_workers,
                         expansion_items, tree_expansion_workers,
                         tree_expansion_items, info_label>>
  /\ UNCHANGED <<wvars, gvars, galvars, dvars>>

\* load_tomogram_async after worker.start(): the registry write and the text
SRecord ==
  /\ ~InterfaceIdle
  /\ loading_workers' = [loading_workers EXCEPT ![starting[1]] = starting[2]]
  /\ info_label' = Text("Loading tomogram", starting[1])
  /\ starting' = NoStart
  /\ rejected' = NoKeyRef
  /\ UNCHANGED <<closed, tree, loading_items, expansion_workers, expansion_items,
                 tree_expansion_workers, tree_expansion_items, tracker, submitted,
                 workers, overlapped>>
  /\ UNCHANGED <<wvars, gvars, galvars, dvars>>

\* a queued callback of a worker runs on the interface thread
SCallback(k, n) ==
  /\ InterfaceIdle
  /\ yielded(k, n) \/ returned(k, n) \/ errored(k, n) \/ finished(k, n)

SNext ==
  \/ \E t \in Tomograms : SStart(t)
  \/ SRecord
  \/ \E t \in Tomograms, n \in Slots : SCallback(t, n)

SpecSubmit == Init /\ [][SNext]_vars

\* C25: for every accepted submit the registry entry of the entity is recorded
\* before its worker is started: in the state in which the worker has just
\* been started the registry holds the entry of that worker.
C25_EntryRecordedBeforeStart ==
  starting # NoStart => loading_workers[starting[1]] = starting[2]

\* no registry entry outlives the workers of its entity
NoEntryLeftBehind ==
  \A t \in Tomograms : Alive(t) = {} => loading_workers[t] = 0

\* how many numeric members of the group have a smaller value than key
NumericBelow(key) ==
  Cardinality({ j \in 1..Len(w_keys) :
                  isdigit(w_keys[j]) /\ int(w_keys[j]) < int(key) })

\* C26: a tomogram load takes as levels exactly the members whose names are
\* non-negative integers, orders them by numeric value ("2" before "10") and
\* reads the member at the index of the effective level: the member read is a
\* numeric member with exactly effectiveLevel numeric members below it.
C26_LevelsAreNumericMembersInOrder ==
  (w_kind = "tomogram" /\ NumLevels >= 1 /\ w_req >= 0) =>
    \A i \in 1..Len(WEmitted) :
      WEmitted[i].sig = "returned" =>
        /\ Contains(w_keys, WEmitted[i].key)
        /\ isdigit(WEmitted[i].key)
        /\ NumericBelow(WEmitted[i].key) = Min(w_req, NumLevels - 1)

\* the store lists "10" before "2" beside a non-numeric member; level 1 was
\* asked for and "10" was read
C26_Witness ==
  /\ w_kind = "tomogram"
  /\ w_req = 1
  /\ \E other \in {NameData, <<"m", "a", "s", "k">>} :
       w_keys = << <<"1", "0">>, other, <<"2">> >>
  /\ \E i \in 1..Len(w_seen) :
       w_seen[i].sig = "returned" /\ w_seen[i].key = <<"1", "0">>

\* C27: a segmentation load on a group with neither a "data" member nor a
\* numeric-named member reads the first member of the group, reports level 0
\* and the base voxel size whatever level was requested; on a group with no
\* member it delivers an error and no result.
C27_SegmentationFallback ==
  (w_kind = "segmentation" /\ ~HasDataMember(w_keys) /\ NumLevels = 0) =>
    /\ \A i \in 1..Len(WEmitted) :
         /\ WEmitted[i].sig = "returned" =>
              /\ Len(w_keys) > 0
              /\ WEmitted[i].key = w_keys[1]
              /\ WEmitted[i].level = 0
              /\ WEmitted[i].voxel = <<w_base, 1>>
         /\ (WEmitted[i].sig = "errored" /\ w_fail \notin {"zarr", "open"}
             /\ Len(w_keys) = 0) => WEmitted[i].text = "IndexError"
    /\ (WDone /\ ~w_abort /\ Len(w_keys) = 0) =>
         \E i \in 1..Len(w_seen) : w_seen[i].sig = "errored"
    /\ (WDone /\ ~w_abort /\ Len(w_keys) > 0 /\ w_fail = "none") =>
         \E i \in 1..Len(w_seen) : w_seen[i].sig = "returned"

\* two members, neither "data" nor numeric, level 2 requested: the first was
\* read at level 0
C27_Witness ==
  /\ w_kind = "segmentation"
  /\ w_keys = << <<"s", "e", "g">>, <<"m", "a", "s", "k">> >>
  /\ w_req = 2
  /\ \E i \in 1..Len(w_seen) :
       /\ w_seen[i].sig = "returned"
       /\ w_seen[i].key = <<"s", "e", "g">>
       /\ w_seen[i].level = 0

(***************************************************************************)
(* SpecGallery: the tomogram loads of the gallery beside the loads of the  *)
(* plugin.  A run selected in the gallery loads the best tomogram of the   *)
(* run; every run of the model has one tomogram.  The gallery keeps one    *)
(* _current_operation tuple and no map of its workers.  Its progress       *)
(* handler only prints.                                                    *)
(***************************************************************************)
\* the operation_id f-string of _load_tomogram_async
GalleryOperationId(tomogram) == <<"gallery_load", NameOf(tomogram), IdOf(tomogram)>>

RECURSIVE GallerySum(_)
GallerySum(i) ==
  IF i = 0 THEN 0 ELSE gallery_workers[<<"tomo", i>>] + GallerySum(i - 1)

\* the workers of the gallery that have no outcome yet
GalleryInFlight == GallerySum(NumRuns)

\* NapariCopickGalleryWidget._load_tomogram_async, the plugin found as parent
gallery_load_tomogram_async(tomogram) ==
  /\ GalleryInFlight < MaxGalleryLoads
  /\ add_operation(GalleryOperationId(tomogram), Text("Loading from gallery", tomogram))
  /\ current_operation' = tomogram
  /\ gallery_workers' = [gallery_workers EXCEPT ![tomogram] = @ + 1]
  /\ rejected' = NoKeyRef
  /\ UNCHANGED <<closed, tree, registries, info_label, submitted, workers, overlapped>>
  /\ UNCHANGED <<wvars, gvars, svars, dvars>>

\* NapariCopickGalleryWidget._on_run_selected
gallery_on_run_selected(run) ==
  /\ ~closed
  /\ gallery_load_tomogram_async(<<"tomo", run[2]>>)

\* NapariCopickGalleryWidget._cleanup_operation
gallery_cleanup_operation ==
  IF current_operation = NoKeyRef
  THEN UNCHANGED <<tracker, current_operation>>
  ELSE /\ remove_operation(GalleryOperationId(current_operation))
       /\ current_operation' = NoKeyRef

\* the end of a worker of the gallery: its outcome is handled
GalleryWorkerEnds(tomogram) ==
  /\ gallery_workers[tomogram] > 0
  /\ gallery_workers' = [gallery_workers EXCEPT ![tomogram] = @ - 1]
  /\ rejected' = NoKeyRef
  /\ UNCHANGED <<closed, tree, registries, info_label, submitted, workers, overlapped>>
  /\ UNCHANGED <<wvars, gvars, svars, dvars>>

\* worker.returned -> _on_tomogram_loaded: the layer is added or the add
\* raises, the cleanup runs in both cases
gallery_on_tomogram_loaded(tomogram) ==
  /\ GalleryWorkerEnds(tomogram)
  /\ gallery_cleanup_operation

\* worker.errored -> _on_error
gallery_on_error(tomogram) ==
  /\ GalleryWorkerEnds(tomogram)
  /\ gallery_cleanup_operation

\* the callbacks of the workers of the gallery and of the plugin
GalleryCompletionOf(tomogram) ==
  gallery_on_tomogram_loaded(tomogram) \/ gallery_on_error(tomogram)

GalleryCompletion == \E t \in Tomograms : GalleryCompletionOf(t)

PluginCompletion ==
  \E t \in Tomograms, n \in Slots :
    yielded(t, n) \/ returned(t, n) \/ errored(t, n) \/ finished(t, n)

GalNext ==
  \/ \E run \in Runs : gallery_on_run_selected(run)
  \/ \E t \in Tomograms : info_tomogram_clicked(t)
  \/ GalleryCompletion
  \/ PluginCompletion

SpecGallery == Init /\ [][GalNext]_vars

\* every started worker ends and its queued callbacks run
SpecGalleryFair ==
  /\ SpecGallery
  /\ \A t \in Tomograms : WF_vars(GalleryCompletionOf(t))
  /\ WF_vars(PluginCompletion)

\* C28: a tomogram load started from the gallery is duplicate-prevented like a
\* load started from the tree: at no time do two workers load the same
\* tomogram, whether the gallery or the plugin started them.
C28_GalleryLoadIsDuplicatePrevented ==
  \A t \in Tomograms : gallery_workers[t] + Cardinality(Running(t)) <= 1

\* C29: every operation id a gallery load has added to the tracker is removed
\* once the worker of the load has returned or failed, for any number of
\* overlapping gallery loads and any order of completion.
C29_GalleryIdsEventuallyRemoved ==
  \A t \in Tomograms :
    (GalleryOperationId(t) \in active_operations)
      ~> (GalleryOperationId(t) \notin active_operations)

\* C30: every tree item a map holds for a task in flight is still an item of
\* the tree, so no result or error handler acts on an item that a rebuild of
\* the tree has deleted.
C30_HeldItemsAreInTheTree ==
  /\ \A e \in LoadEntities : loading_items[e] # "stale"
  /\ \A e \in ExpandEntities :
       expansion_items[e] # "stale" /\ tree_expansion_items[e] # "stale"


\* C31: while loading_workers or expansion_workers holds an entry for any
\* entity, active_operations is not empty and the loading widget is visible.
C31_RegistryEntryImpliesBusy ==
  (\/ \E k \in LoadKeys : loading_workers[k] # 0
   \/ \E e \in ExpandEntities : expansion_workers[e] # 0)
    => (active_operations # {} /\ loading_visible)


\* the step runs the result callback of an expansion worker of e
Succeeds(e) ==
  \E n \in Slots : workers[e][n].st = "running" /\ workers'[e][n].st = "returned"

\* the step adds an operation with the description of an expansion of e
Announces(e) ==
  /\ loading_label' # loading_label
  /\ loading_label' \in { Text("Expanding run", e), Text("Expanding voxel spacing", e) }

\* while the item of e has a child, no step starts a worker for e or adds an
\* operation for e
ExpandedItemStartsNothing ==
  [][\A e \in ExpandEntities : e \in children => ~Starts(e) /\ ~Announces(e)]_vars

\* C32: once the expansion of a run or voxel spacing has succeeded, in a widget
\* that is open, its tree item has a child, and while it has one no expand or
\* click event on it starts a worker or adds an operation.
C32_ExpandedItemHasChildAndStartsNothing ==
  [][\A e \in ExpandEntities :
       /\ (Succeeds(e) /\ ~closed) => e \in children'
       /\ e \in children => ~Starts(e) /\ ~Announces(e)]_vars


\* C33: in every result of a tomogram or segmentation load with a requested
\* level >= 0 the reported voxel size is the base voxel size times 2 to the
\* power of the reported level, whichever member of the group was read.
C33_VoxelSizeAgreesWithReportedLevel ==
  w_req >= 0 =>
    \A i \in 1..Len(WEmitted) :
      WEmitted[i].sig = "returned" =>
        /\ WEmitted[i].level >= 0
        /\ WEmitted[i].voxel[2] = 1
        /\ WEmitted[i].voxel[1] = w_base * Pow2(WEmitted[i].level)

\* a segmentation with members "0" and "1" read at level 1: twice the base size
C33_Witness ==
  /\ w_kind = "segmentation"
  /\ w_keys = << <<"0">>, <<"1">> >>
  /\ w_req = 1
  /\ \E i \in 1..Len(w_seen) :
       /\ w_seen[i].sig = "returned"
       /\ w_seen[i].level = 1
       /\ w_seen[i].voxel = <<w_base * 2, 1>>


(***************************************************************************)
(* SpecDialog: the save dialog of CopickPlugin.open_save_segmentation_dialog *)
(* from its construction to accept or reject, and the clicks on its        *)
(* checkboxes in between.                                                  *)
(***************************************************************************)
\* SaveSegmentationDialog(...) is constructed and exec_() starts
DOpen(preset_overwrite) ==
  /\ ~dialog_open
  /\ dialogs < MaxDialogs
  /\ dialog' = SaveLayerDialog(preset_overwrite)
  /\ dialog_open' = TRUE
  /\ dialogs' = dialogs + 1
  /\ UNCHANGED save_params
  /\ UNCHANGED <<wvars, pvars, gvars, svars, galvars>>

\* a click on a checkbox of the open dialog
DClick(box) ==
  /\ dialog_open
  /\ CASE box = "split" ->
            /\ dialog.split_enabled
            /\ dialog' = split_setChecked(dialog, ~dialog.split_instances_checkbox)
       [] box = "convert" ->
            /\ dialog.convert_enabled
            /\ dialog' = convert_setChecked(dialog, ~dialog.convert_to_binary_checkbox)
       [] box = "multilabel" ->
            dialog' = multilabel_setChecked(dialog, ~dialog.multilabel_checkbox)
       [] box = "overwrite" ->
            dialog' = [dialog EXCEPT !.overwrite_checkbox = ~dialog.overwrite_checkbox]
  /\ UNCHANGED <<dialog_open, save_params, dialogs>>
  /\ UNCHANGED <<wvars, pvars, gvars, svars, galvars>>

\* the dialog is accepted: result = dialog.get_values()
DAccept ==
  /\ dialog_open
  /\ save_params' = get_values(dialog)
  /\ dialog_open' = FALSE
  /\ UNCHANGED <<dialog, dialogs>>
  /\ UNCHANGED <<wvars, pvars, gvars, svars, galvars>>

\* the dialog is rejected
DReject ==
  /\ dialog_open
  /\ dialog_open' = FALSE
  /\ UNCHANGED <<dialog, save_params, dialogs>>
  /\ UNCHANGED <<wvars, pvars, gvars, svars, galvars>>

DNext ==
  \/ \E preset_overwrite \in BOOLEAN : DOpen(preset_overwrite)
  \/ \E box \in {"split", "convert", "multilabel", "overwrite"} : DClick(box)
  \/ DAccept
  \/ DReject

SpecDialog == Init /\ [][DNext]_vars

\* split instances and convert to binary are not both set, and neither is set
\* with multilabel
Exclusive(multilabel, split, convert) ==
  /\ ~(split /\ convert)
  /\ multilabel => (~split /\ ~convert)

\* C34: after any sequence of clicks on the checkboxes of the save dialog,
\* split-instances and convert-to-binary are never both checked, neither is
\* checked while multilabel is checked, and the flags get_values returns
\* satisfy the same exclusion.
C34_SaveFlagsExclusive ==
  /\ Exclusive(dialog.multilabel_checkbox, dialog.split_instances_checkbox,
               dialog.convert_to_binary_checkbox)
  /\ Exclusive(save_params.is_multilabel, save_params.split_instances,
               save_params.convert_to_binary)

\* a dialog was accepted with split instances checked, and in the next dialog
\* multilabel has been checked
C34_Witness ==
  /\ save_params.taken
  /\ save_params.split_instances
  /\ ~save_params.convert_to_binary
  /\ dialog_open
  /\ dialog.multilabel_checkbox
  /\ ~dialog.split_enabled

==============================================================================
